---- MODULE Spec2Model ----
(***************************************************************************)
(* Model of scripts/migrate-schema-relationships.py: the migration of      *)
(* source-holds-reference fields to target-holds-reference fields over a   *)
(* store of schema documents (one per entity type) and entity records      *)
(* (one YAML file per record).                                             *)
(*                                                                         *)
(* The persisted store is the pair (schemas, entities).  A call of         *)
(* migrate_relationship is modelled step by step, one file write at most   *)
(* per step, so that the states between two writes are states of the       *)
(* model.  Two specifications share these steps:                           *)
(*   Spec      main(): the driver over MIGRATIONS;                         *)
(*   SpecRule  migrate_relationship called twice on one rule, the first    *)
(*             call in dry-run or live mode, the second one live.          *)
(* Two more specifications stand apart:                                    *)
(*   SpecCleanup  clean_entity_data of scripts/cleanup-schema-migration.py *)
(*                called twice on one store;                               *)
(*   SpecTitle    get_field_title applied to one field name.               *)
(***************************************************************************)
EXTENDS Integers, Sequences, FiniteSets, TLC

\* Longest reference list a source record holds in an initial store.
MaxRefs == 2

(***************************************************************************)
(* Rules and entity types.  MIGRATIONS keeps three of the 26 rules of the  *)
(* script, in their order: two rules with the same target type, and the    *)
(* special-case rule whose target type is the source type of the first.    *)
(***************************************************************************)
MIGRATIONS ==
  << <<"Requirement", "realizesFeatureIds", "Feature", "realizedByRequirementIds">>,
     <<"Decision", "affectsFeatureIds", "Feature", "affectedByDecisionIds">>,
     <<"Actor", "ownsRequirements", "Requirement", "ownerId">> >>

Rules == 1..Len(MIGRATIONS)

ENTITY_FOLDERS == {"Feature", "Requirement", "Decision", "Actor"}

\* The record files of each folder; F9 names no file (a dangling id).
RecordIds ==
  [t \in ENTITY_FOLDERS |->
     CASE t = "Requirement" -> {"R1", "R2"}
       [] t = "Feature" -> {"F1", "F2"}
       [] t = "Decision" -> {"D1"}
       [] t = "Actor" -> {"A1"}]

DanglingId == "F9"

(***************************************************************************)
(* Values of a record field: a YAML string or a YAML list of strings.  A   *)
(* string s is kept as the one-element sequence <<s>>, which is what the   *)
(* coercion of migrate_relationship makes of it.                           *)
(***************************************************************************)
StrVal(s) == [kind |-> "str", items |-> <<s>>]
ListVal(q) == [kind |-> "list", items |-> q]

\* Python truthiness of a field value ("" and [] are falsy).
Truthy(v) == IF v.kind = "str" THEN v.items[1] # "" ELSE v.items # <<>>

\* isinstance(ref_values, str) -> [ref_values]
AsList(v) == v.items

\* x in value: membership in a list; for a string, substring (ids are
\* non-empty and of one length, so a substring is the whole string).
Contains(v, x) == \E i \in 1..Len(v.items) : v.items[i] = x

NoFields == [f \in {} |-> StrVal("")]
WithField(data, f, v) == [g \in DOMAIN data \cup {f} |-> IF g = f THEN v ELSE data[g]]
WithoutField(data, f) == [g \in DOMAIN data \ {f} |-> data[g]]

RECURSIVE SeqsUpTo(_, _)
SeqsUpTo(S, n) ==
  IF n = 0 THEN {<<>>}
  ELSE LET shorter == SeqsUpTo(S, n - 1)
       IN shorter \cup {Append(q, x) : q \in {p \in shorter : Len(p) = n - 1}, x \in S}

(***************************************************************************)
(* Field names as character sequences, for get_field_title.                *)
(***************************************************************************)
Chars(name) ==
  CASE name = "realizedByRequirementIds" ->
         <<"r","e","a","l","i","z","e","d","B","y","R","e","q","u","i","r","e","m","e","n","t","I","d","s">>
    [] name = "affectedByDecisionIds" ->
         <<"a","f","f","e","c","t","e","d","B","y","D","e","c","i","s","i","o","n","I","d","s">>
    [] name = "ownerId" -> <<"o","w","n","e","r","I","d">>

UpperCase == {"B", "R", "D", "I"}
Lower(c) ==
  CASE c = "B" -> "b" [] c = "R" -> "r" [] c = "D" -> "d" [] c = "I" -> "i"
    [] c = "Y" -> "y" [] OTHER -> c

\* str.replace(old, ""): every non-overlapping occurrence, left to right.
RECURSIVE Remove(_, _)
Remove(s, old) ==
  IF Len(s) < Len(old) THEN s
  ELSE IF SubSeq(s, 1, Len(old)) = old
       THEN Remove(SubSeq(s, Len(old) + 1, Len(s)), old)
       ELSE <<s[1]>> \o Remove(Tail(s), old)

\* The camelCase split: words are joined with a space as they close.
RECURSIVE SplitWords(_, _, _)
SplitWords(name, words, current) ==
  IF name = <<>>
  THEN IF current # <<>>
       THEN (IF words = <<>> THEN <<>> ELSE words \o <<" ">>) \o current
       ELSE words
  ELSE IF Head(name) \in UpperCase /\ current # <<>>
       THEN SplitWords(Tail(name),
                       (IF words = <<>> THEN <<>> ELSE words \o <<" ">>) \o current,
                       <<Lower(Head(name))>>)
       ELSE SplitWords(Tail(name), words, Append(current, Lower(Head(name))))

get_field_title(field_name) ==
  SplitWords(Remove(Remove(field_name, <<"I","d","s">>), <<"I","d">>), <<>>, <<>>)

\* Mutant: the single-valued definition is returned whatever is_single.
create_reference_field_single(source_type, is_single) ==
  [type |-> "string", format |-> "sdd-ref", refTargets |-> source_type,
   uniqueItems |-> FALSE, maxLength |-> 30, title |-> <<>>, description |-> ""]

create_reference_field(source_type, is_single) ==
  IF is_single
  THEN [type |-> "string", format |-> "sdd-ref", refTargets |-> source_type,
        uniqueItems |-> FALSE, maxLength |-> 30, title |-> <<>>, description |-> ""]
  ELSE [type |-> "array", format |-> "sdd-ref", refTargets |-> source_type,
        uniqueItems |-> TRUE, maxLength |-> 0, title |-> <<>>, description |-> ""]

\* get_field_title of the new field of each rule.
FieldTitle ==
  [name \in {MIGRATIONS[r][4] : r \in Rules} |-> get_field_title(Chars(name))]

\* The field definition migrate_relationship adds to the target schema.
NewFieldDef(source_type, new_field) ==
  [create_reference_field(source_type, FALSE) EXCEPT
     !.description = "s that affect/apply to this entity",
     !.title = FieldTitle[new_field]]

\* A field definition that is in a schema before the migration.
OldFieldDef(type, ref_type) ==
  [type |-> type, format |-> "sdd-ref", refTargets |-> ref_type,
   uniqueItems |-> (type = "array"), maxLength |-> IF type = "string" THEN 30 ELSE 0,
   title |-> <<>>, description |-> ""]

(***************************************************************************)
(* State.                                                                  *)
(***************************************************************************)
VARIABLES
  schemas,          \* persisted: type -> [exists, properties]
  entities,         \* persisted: type -> id -> record (field -> value)
  pc,               \* position of control
  dry_run,          \* the dry_run argument of the running call / of main
  cur,              \* index in MIGRATIONS of the rule being migrated
  stats,            \* migrate_relationship: stats
  source_entities,  \* migrate_relationship: loaded source records
  target_entities,  \* migrate_relationship: loaded target records
  todo,             \* source ids the for loop has not yet visited
  updated_targets,  \* migrate_relationship: updated_targets
  saved,            \* updated targets the final loop has already saved
  exc,              \* the exception a raising call raised ("" if none)
  total_stats,      \* main: total_stats
  response,         \* main: the answer read at the confirmation ("" before)
  cleanup,          \* clean_entity_data: its local variables
  field_title,      \* get_field_title: its argument and the title it returned
  calls,            \* history: one entry per finished call
  pre,              \* history: the persisted store when the call started
  written           \* history: files the running call has written

vars == <<schemas, entities, pc, dry_run, cur, stats, source_entities,
          target_entities, todo, updated_targets, saved, exc, total_stats,
          response, cleanup, field_title, calls, pre, written>>

locals == <<source_entities, target_entities, todo, updated_targets, saved>>

source_type == MIGRATIONS[cur][1]
source_field == MIGRATIONS[cur][2]
target_type == MIGRATIONS[cur][3]
new_field == MIGRATIONS[cur][4]

\* No call of get_field_title has been made.
NoTitle == [field_name |-> <<>>, title |-> <<>>]

\* The locals of clean_entity_data before it is called.
NoCleanup == [index |-> 0, allowed_fields |-> {}, files |-> {}, entities_cleaned |-> 0,
              total_cleaned |-> 0]

ZeroStats == [schema_updates |-> 0, entities_updated |-> 0, refs_migrated |-> 0]
NoEntities == [i \in {} |-> NoFields]
Store == [schemas |-> schemas, entities |-> entities]

(***************************************************************************)
(* Schema store and entity store.                                          *)
(***************************************************************************)
\* load_schema raises FileNotFoundError when the file is absent.
SchemaExists(entity_type) == schemas[entity_type].exists
load_schema(entity_type) == schemas[entity_type]

save_schema(entity_type, schema, dry) ==
  IF dry THEN schemas ELSE [schemas EXCEPT ![entity_type] = schema]

\* Mutant: the folders are read once, before the first rule of the batch,
\* and every later rule is given those records.
load_entities_cached(entity_type) ==
  IF entity_type \notin ENTITY_FOLDERS THEN NoEntities
  ELSE IF calls = <<>> THEN entities[entity_type]
       ELSE calls[1].pre.entities[entity_type]

load_entities(entity_type) ==
  IF entity_type \notin ENTITY_FOLDERS THEN NoEntities ELSE entities[entity_type]

\* Mutant: the record is written in a dry run too.
save_entity_always(entity_type, id, data, dry) ==
  [entities EXCEPT ![entity_type][id] = data]

save_entity(entity_type, id, data, dry) ==
  IF dry THEN entities ELSE [entities EXCEPT ![entity_type][id] = data]

\* The files a save writes (none in a dry run).
Writes(file, dry) == IF dry THEN written ELSE written \cup {file}

\* Mutant: no rule is taken for the special case.
IsSpecialCase_never(r) == FALSE

IsSpecialCase(r) == MIGRATIONS[r][2] = "ownsRequirements" /\ MIGRATIONS[r][4] = "ownerId"

(***************************************************************************)
(* The inner loop of migrate_relationship over the references of one       *)
(* source record: acc is [targets, updated, refs, exc].                    *)
(***************************************************************************)
\* Mutant: the target that received the id is not remembered as updated.
AddReverseRef_untracked(acc, target_id, source_id, field) ==
  IF target_id \notin DOMAIN acc.targets
  THEN acc
  ELSE LET data0 == acc.targets[target_id]
           data == IF field \in DOMAIN data0 THEN data0
                   ELSE WithField(data0, field, ListVal(<<>>))
       IN IF Contains(data[field], source_id)
          THEN [acc EXCEPT !.targets[target_id] = data]
          ELSE [acc EXCEPT
                  !.targets[target_id] =
                     WithField(data, field, ListVal(Append(data[field].items, source_id))),
                  !.refs = acc.refs + 1]

\* Mutant: the id is appended without the membership test.
AddReverseRef_noDedup(acc, target_id, source_id, field) ==
  IF target_id \notin DOMAIN acc.targets
  THEN acc
  ELSE LET data0 == acc.targets[target_id]
           data == IF field \in DOMAIN data0 THEN data0
                   ELSE WithField(data0, field, ListVal(<<>>))
       IN [acc EXCEPT
             !.targets[target_id] =
                WithField(data, field, ListVal(Append(data[field].items, source_id))),
             !.updated = acc.updated \cup {target_id},
             !.refs = acc.refs + 1]

\* Mutant: the target is looked up without the test that it was loaded.
AddReverseRef_keyError(acc, target_id, source_id, field) ==
  IF target_id \notin DOMAIN acc.targets
  THEN [acc EXCEPT !.exc = "KeyError"]
  ELSE LET data0 == acc.targets[target_id]
           data == IF field \in DOMAIN data0 THEN data0
                   ELSE WithField(data0, field, ListVal(<<>>))
       IN IF Contains(data[field], source_id)
          THEN [acc EXCEPT !.targets[target_id] = data]
          ELSE [acc EXCEPT
                  !.targets[target_id] =
                     WithField(data, field, ListVal(Append(data[field].items, source_id))),
                  !.updated = acc.updated \cup {target_id},
                  !.refs = acc.refs + 1]

AddReverseRef(acc, target_id, source_id, field) ==
  IF target_id \notin DOMAIN acc.targets
  THEN acc    \* "Target not found": a warning only
  ELSE LET data0 == acc.targets[target_id]
           data == IF field \in DOMAIN data0 THEN data0
                   ELSE WithField(data0, field, ListVal(<<>>))
       IN IF Contains(data[field], source_id)
          THEN [acc EXCEPT !.targets[target_id] = data]
          ELSE IF data[field].kind = "str"
               THEN [acc EXCEPT !.exc = "AttributeError"]    \* str has no append
               ELSE [acc EXCEPT
                       !.targets[target_id] =
                          WithField(data, field, ListVal(Append(data[field].items, source_id))),
                       !.updated = acc.updated \cup {target_id},
                       !.refs = acc.refs + 1]

RECURSIVE PropagateRefs(_, _, _, _)
PropagateRefs(acc, ref_values, source_id, field) ==
  IF ref_values = <<>> \/ acc.exc # "" THEN acc
  ELSE PropagateRefs(AddReverseRef(acc, Head(ref_values), source_id, field),
                     Tail(ref_values), source_id, field)

\* Whether the loop body reaches the removal of the source field.
HasRefs(data, field) == field \in DOMAIN data /\ Truthy(data[field])

(***************************************************************************)
(* migrate_relationship, step by step.                                     *)
(***************************************************************************)
\* Entry of a call on rule r: stats = zeros, nothing loaded yet.
Enter(r, dry) ==
  /\ cur' = r
  /\ dry_run' = dry
  /\ stats' = ZeroStats
  /\ exc' = ""
  /\ pre' = Store
  /\ written' = {}
  /\ pc' = "mr_start"

Raise(e) ==
  /\ pc' = "mr_raise"
  /\ exc' = e

\* Lines 177-187: the special case only drops the property of the source schema.
SpecialCaseStep ==
  /\ pc = "mr_start"
  /\ IsSpecialCase(cur)
  /\ IF ~SchemaExists(source_type)
     THEN /\ Raise("FileNotFoundError")
          /\ UNCHANGED <<schemas, stats, written>>
     ELSE LET source_schema == load_schema(source_type)
          IN /\ IF source_field \in DOMAIN source_schema.properties
                THEN /\ schemas' = save_schema(source_type,
                                      [source_schema EXCEPT
                                         !.properties = WithoutField(@, source_field)],
                                      dry_run)
                     /\ written' = Writes(<<"schema", source_type>>, dry_run)
                     /\ stats' = [stats EXCEPT !.schema_updates = @ + 1]
                ELSE UNCHANGED <<schemas, stats, written>>
             /\ pc' = "mr_return"
             /\ exc' = exc
  /\ UNCHANGED <<field_title, cleanup, response, entities, dry_run, cur, locals,
                 total_stats, calls, pre>>

\* Mutant: the target schema is loaded but the new field is not added to it.
TargetSchemaStep_noSave ==
  /\ pc = "mr_start"
  /\ ~IsSpecialCase(cur)
  /\ IF ~SchemaExists(target_type)
     THEN Raise("FileNotFoundError")
     ELSE pc' = "mr_load" /\ exc' = exc
  /\ UNCHANGED <<field_title, cleanup, response, schemas, stats, written, entities,
                 dry_run, cur, locals, total_stats, calls, pre>>

\* Lines 189-202: add the new field to the target schema.
TargetSchemaStep ==
  /\ pc = "mr_start"
  /\ ~IsSpecialCase(cur)
  /\ IF ~SchemaExists(target_type)
     THEN /\ Raise("FileNotFoundError")
          /\ UNCHANGED <<schemas, stats, written>>
     ELSE LET target_schema == load_schema(target_type)
          IN /\ IF new_field \notin DOMAIN target_schema.properties
                THEN /\ schemas' = save_schema(target_type,
                                      [target_schema EXCEPT
                                         !.properties =
                                            WithField(@, new_field,
                                                      NewFieldDef(source_type, new_field))],
                                      dry_run)
                     /\ written' = Writes(<<"schema", target_type>>, dry_run)
                     /\ stats' = [stats EXCEPT !.schema_updates = @ + 1]
                ELSE UNCHANGED <<schemas, stats, written>>
             /\ pc' = "mr_load"
             /\ exc' = exc
  /\ UNCHANGED <<field_title, cleanup, response, entities, dry_run, cur, locals,
                 total_stats, calls, pre>>

\* Lines 205-208: load both folders.
LoadEntitiesStep ==
  /\ pc = "mr_load"
  /\ source_entities' = load_entities(source_type)
  /\ target_entities' = load_entities(target_type)
  /\ todo' = DOMAIN load_entities(source_type)
  /\ updated_targets' = {}
  /\ saved' = {}
  /\ pc' = "mr_data"
  /\ UNCHANGED <<field_title, cleanup, response, schemas, entities, dry_run, cur, stats,
                 exc, total_stats, calls, pre, written>>

\* Lines 210-244: one iteration of the loop over the source records, in the
\* order the folder is listed (any order).
SourceLoopStep ==
  /\ pc = "mr_data"
  /\ \E source_id \in todo :
       LET source_data == source_entities[source_id]
       IN /\ todo' = todo \ {source_id}
          /\ IF ~HasRefs(source_data, source_field)
             THEN UNCHANGED <<entities, stats, source_entities, target_entities,
                              updated_targets, exc, pc, written>>
             ELSE LET acc == PropagateRefs([targets |-> target_entities,
                                            updated |-> updated_targets,
                                            refs |-> stats.refs_migrated, exc |-> ""],
                                           AsList(source_data[source_field]),
                                           source_id, new_field)
                      removed == WithoutField(source_data, source_field)
                  IN IF acc.exc # ""
                     THEN /\ Raise(acc.exc)
                          /\ UNCHANGED <<entities, stats, source_entities,
                                         target_entities, updated_targets, written>>
                     ELSE /\ target_entities' = acc.targets
                          /\ updated_targets' = acc.updated
                          /\ stats' = [stats EXCEPT !.refs_migrated = acc.refs]
                          /\ source_entities' =
                               IF dry_run THEN source_entities
                               ELSE [source_entities EXCEPT ![source_id] = removed]
                          /\ entities' = save_entity(source_type, source_id, removed, dry_run)
                          /\ written' = Writes(<<source_type, source_id>>, dry_run)
                          /\ UNCHANGED <<exc, pc>>
  /\ UNCHANGED <<field_title, cleanup, response, schemas, dry_run, cur, saved,
                 total_stats, calls, pre>>

\* Mutant: the loop over the updated targets is guarded by "not dry_run",
\* so that a dry run counts no updated entity.
SaveTargetStep_liveOnly ==
  /\ pc = "mr_data"
  /\ todo = {}
  /\ \E target_id \in updated_targets \ saved :
       /\ entities' = save_entity(target_type, target_id, target_entities[target_id], dry_run)
       /\ written' = Writes(<<target_type, target_id>>, dry_run)
       /\ saved' = saved \cup {target_id}
  /\ stats' = IF dry_run THEN stats ELSE [stats EXCEPT !.entities_updated = @ + 1]
  /\ UNCHANGED <<field_title, cleanup, response, schemas, pc, dry_run, cur,
                 source_entities, target_entities, todo, updated_targets, exc,
                 total_stats, calls, pre>>

\* Mutant: the final loop saves every loaded target record, updated or not.
SaveTargetStep_all ==
  /\ pc = "mr_data"
  /\ todo = {}
  /\ \E target_id \in DOMAIN target_entities \ saved :
       /\ entities' = save_entity(target_type, target_id, target_entities[target_id], dry_run)
       /\ written' = Writes(<<target_type, target_id>>, dry_run)
       /\ saved' = saved \cup {target_id}
  /\ stats' = [stats EXCEPT !.entities_updated = @ + 1]
  /\ UNCHANGED <<field_title, cleanup, response, schemas, pc, dry_run, cur,
                 source_entities, target_entities, todo, updated_targets, exc,
                 total_stats, calls, pre>>

\* Lines 247-250: save one updated target record.
SaveTargetStep ==
  /\ pc = "mr_data"
  /\ todo = {}
  /\ \E target_id \in updated_targets \ saved :
       /\ entities' = save_entity(target_type, target_id, target_entities[target_id], dry_run)
       /\ written' = Writes(<<target_type, target_id>>, dry_run)
       /\ saved' = saved \cup {target_id}
  /\ stats' = [stats EXCEPT !.entities_updated = @ + 1]
  /\ UNCHANGED <<field_title, cleanup, response, schemas, pc, dry_run, cur,
                 source_entities, target_entities, todo, updated_targets, exc,
                 total_stats, calls, pre>>

\* Mutant: the property of the source schema is dropped while records are
\* still to be written, and the call returns.
SourceSchemaStep_early ==
  /\ pc = "mr_data"
  /\ IF ~SchemaExists(source_type)
     THEN /\ Raise("FileNotFoundError")
          /\ UNCHANGED <<schemas, stats, written>>
     ELSE LET source_schema == load_schema(source_type)
          IN /\ IF source_field \in DOMAIN source_schema.properties
                THEN /\ schemas' = save_schema(source_type,
                                      [source_schema EXCEPT
                                         !.properties = WithoutField(@, source_field)],
                                      dry_run)
                     /\ written' = Writes(<<"schema", source_type>>, dry_run)
                     /\ stats' = [stats EXCEPT !.schema_updates = @ + 1]
                ELSE UNCHANGED <<schemas, stats, written>>
             /\ pc' = "mr_return"
             /\ exc' = exc
  /\ UNCHANGED <<field_title, cleanup, response, entities, dry_run, cur, locals,
                 total_stats, calls, pre>>

\* Lines 253-261: drop the property of the source schema and return.
SourceSchemaStep ==
  /\ pc = "mr_data"
  /\ todo = {}
  /\ updated_targets \ saved = {}
  /\ IF ~SchemaExists(source_type)
     THEN /\ Raise("FileNotFoundError")
          /\ UNCHANGED <<schemas, stats, written>>
     ELSE LET source_schema == load_schema(source_type)
          IN /\ IF source_field \in DOMAIN source_schema.properties
                THEN /\ schemas' = save_schema(source_type,
                                      [source_schema EXCEPT
                                         !.properties = WithoutField(@, source_field)],
                                      dry_run)
                     /\ written' = Writes(<<"schema", source_type>>, dry_run)
                     /\ stats' = [stats EXCEPT !.schema_updates = @ + 1]
                ELSE UNCHANGED <<schemas, stats, written>>
             /\ pc' = "mr_return"
             /\ exc' = exc
  /\ UNCHANGED <<field_title, cleanup, response, entities, dry_run, cur, locals,
                 total_stats, calls, pre>>

migrate_relationship ==
  \/ SpecialCaseStep
  \/ TargetSchemaStep
  \/ LoadEntitiesStep
  \/ SourceLoopStep
  \/ SaveTargetStep
  \/ SourceSchemaStep

\* What the caller sees of a finished call; the locals are gone.
Finished(outcome) ==
  [rule |-> cur, dry |-> dry_run, outcome |-> outcome, exc |-> exc,
   stats |-> IF outcome = "returned" THEN stats ELSE ZeroStats,
   pre |-> pre, post |-> Store, written |-> written]

DropLocals ==
  /\ source_entities' = NoEntities
  /\ target_entities' = NoEntities
  /\ todo' = {}
  /\ updated_targets' = {}
  /\ saved' = {}

(***************************************************************************)
(* Initial stores.  BaseStore is a bundle before any migration; the        *)
(* initial stores vary the parts of it a rule reads.  In every store a     *)
(* schema file that exists has a "properties" object, every record has an  *)
(* id, a reference field holds a string or a list of strings, and a new    *)
(* field that a target record already holds came from an earlier run of    *)
(* the rule: a list without duplicates (a string for ownerId).             *)
(***************************************************************************)
NoProperties == [f \in {} |-> OldFieldDef("string", "")]
AbsentSchema == [exists |-> FALSE, properties |-> NoProperties]
SchemaOf(props) == [exists |-> TRUE, properties |-> props]

BaseStore ==
  [schemas |->
     [t \in ENTITY_FOLDERS |->
        CASE t = "Requirement" ->
               SchemaOf(WithField(WithField(NoProperties, "realizesFeatureIds",
                                            OldFieldDef("array", "Feature")),
                                  "ownerId", OldFieldDef("string", "Actor")))
          [] t = "Feature" -> SchemaOf(NoProperties)
          [] t = "Decision" ->
               SchemaOf(WithField(NoProperties, "affectsFeatureIds",
                                  OldFieldDef("array", "Feature")))
          [] t = "Actor" ->
               SchemaOf(WithField(NoProperties, "ownsRequirements",
                                  OldFieldDef("array", "Requirement")))],
   entities |->
     [t \in ENTITY_FOLDERS |->
        CASE t = "Requirement" ->
               [i \in RecordIds[t] |->
                  IF i = "R1"
                  THEN WithField(WithField(NoFields, "ownerId", StrVal("A1")),
                                 "realizesFeatureIds", ListVal(<<"F1">>))
                  ELSE WithField(NoFields, "realizesFeatureIds", ListVal(<<"F1">>))]
          [] t = "Feature" -> [i \in RecordIds[t] |-> NoFields]
          [] t = "Decision" ->
               [i \in RecordIds[t] |->
                  WithField(NoFields, "affectsFeatureIds", ListVal(<<"F1">>))]
          [] t = "Actor" ->
               [i \in RecordIds[t] |->
                  WithField(NoFields, "ownsRequirements", ListVal(<<"R1">>))]]]

\* "No such field" among the values an initial record may take for a field.
Missing == [kind |-> "missing", items |-> <<>>]

SetField(data, f, v) == IF v = Missing THEN WithoutField(data, f) ELSE WithField(data, f, v)

\* The first record of a folder.
Primary(t) ==
  CASE t = "Requirement" -> "R1" [] t = "Feature" -> "F1"
    [] t = "Decision" -> "D1" [] t = "Actor" -> "A1"

\* The values a reference field holds: no field, a string, a list.
SourceValues(t, n) ==
  {Missing} \cup {StrVal(x) : x \in RecordIds[t] \cup {DanglingId, ""}}
            \cup {ListVal(q) : q \in SeqsUpTo(RecordIds[t] \cup {DanglingId}, n)}

\* The stores a call on rule r may start from: schemas absent, with or
\* without the rule's fields; source records with any reference value;
\* the first target record with or without an earlier back-reference.
RuleStores(r) ==
  LET s == MIGRATIONS[r][1]
      f == MIGRATIONS[r][2]
      t == MIGRATIONS[r][3]
      g == MIGRATIONS[r][4]
      sprops == BaseStore.schemas[s].properties
      tprops == BaseStore.schemas[t].properties
      \* the new field as the bundle declares it, or as an earlier run left it
      gdef == IF g \in DOMAIN tprops THEN tprops[g] ELSE OldFieldDef("array", s)
      gval == IF gdef.type = "string" THEN StrVal(Primary(s)) ELSE ListVal(<<Primary(s)>>)
  IN {[schemas |->
         [BaseStore.schemas EXCEPT ![s] = ss, ![t] = ts],
       entities |->
         [BaseStore.entities EXCEPT
            ![s] = [i \in RecordIds[s] |->
                      SetField(@[i], f, IF i = Primary(s) THEN v1 ELSE v2)],
            ![t] = [i \in RecordIds[t] |->
                      IF i = Primary(t) THEN SetField(@[i], g, v3) ELSE @[i]]]] :
        ss \in {AbsentSchema, SchemaOf(WithField(sprops, f, OldFieldDef("array", t))),
                SchemaOf(WithoutField(sprops, f))},
        ts \in {AbsentSchema, SchemaOf(WithField(tprops, g, gdef)),
                SchemaOf(WithoutField(tprops, g))},
        v1 \in SourceValues(t, MaxRefs),
        v2 \in {Missing, ListVal(<<Primary(t)>>)},
        v3 \in {Missing, gval}}

\* The stores main may start from: any set of schema files absent, any
\* reference value in the first Requirement.
MainStores ==
  {[schemas |->
      [t \in ENTITY_FOLDERS |->
         IF t \in absent THEN AbsentSchema ELSE BaseStore.schemas[t]],
    entities |->
      [BaseStore.entities EXCEPT
         !["Requirement"]["R1"] = SetField(@, "realizesFeatureIds", v1)]] :
     absent \in SUBSET ENTITY_FOLDERS,
     v1 \in SourceValues("Feature", MaxRefs)}

(***************************************************************************)
(* SpecRule: migrate_relationship called twice on one rule.                *)
(***************************************************************************)
InitRule ==
  /\ \E r \in Rules :
       /\ cur = r
       /\ \E st \in RuleStores(r) :
            /\ schemas = st.schemas
            /\ entities = st.entities
            /\ pre = st
  /\ pc = "idle"
  /\ dry_run = FALSE
  /\ stats = ZeroStats
  /\ source_entities = NoEntities
  /\ target_entities = NoEntities
  /\ todo = {}
  /\ updated_targets = {}
  /\ saved = {}
  /\ exc = ""
  /\ total_stats = ZeroStats
  /\ response = ""
  /\ cleanup = NoCleanup
  /\ field_title = NoTitle
  /\ calls = <<>>
  /\ written = {}

\* The first call is a dry run or a live run, the second a live run.
Call ==
  /\ pc = "idle"
  /\ Len(calls) < 2
  /\ \E dry \in IF calls = <<>> THEN BOOLEAN ELSE {FALSE} : Enter(cur, dry)
  /\ UNCHANGED <<field_title, cleanup, response, schemas, entities, locals, total_stats,
                 calls>>

CallReturns ==
  /\ pc = "mr_return"
  /\ calls' = Append(calls, Finished("returned"))
  /\ pc' = "idle"
  /\ DropLocals
  /\ UNCHANGED <<field_title, cleanup, response, schemas, entities, dry_run, cur, stats,
                 exc, total_stats, pre, written>>

CallRaises ==
  /\ pc = "mr_raise"
  /\ calls' = Append(calls, Finished("raised"))
  /\ pc' = "idle"
  /\ DropLocals
  /\ UNCHANGED <<field_title, cleanup, response, schemas, entities, dry_run, cur, stats,
                 exc, total_stats, pre, written>>

NextRule ==
  \/ Call
  \/ CallReturns
  \/ CallRaises
  \/ SpecialCaseStep
  \/ TargetSchemaStep
  \/ LoadEntitiesStep
  \/ SourceLoopStep
  \/ SaveTargetStep
  \/ SourceSchemaStep

SpecRule == InitRule /\ [][NextRule]_vars

(***************************************************************************)
(* Spec: main().                                                           *)
(***************************************************************************)
Responses == {"y", "Y", "n", "yes", ""}

Init ==
  /\ \E st \in MainStores :
       /\ schemas = st.schemas
       /\ entities = st.entities
       /\ pre = st
  /\ pc = "main"
  /\ dry_run \in BOOLEAN     \* '--dry-run' in sys.argv
  /\ cur = 1
  /\ stats = ZeroStats
  /\ source_entities = NoEntities
  /\ target_entities = NoEntities
  /\ todo = {}
  /\ updated_targets = {}
  /\ saved = {}
  /\ exc = ""
  /\ total_stats = ZeroStats
  /\ response = ""
  /\ cleanup = NoCleanup
  /\ field_title = NoTitle
  /\ calls = <<>>
  /\ written = {}

\* Mutant: the run is aborted only on an explicit "n".
MainConfirm_abortOnNo ==
  /\ pc = "main"
  /\ IF dry_run
     THEN pc' = "main_loop" /\ response' = response
     ELSE \E answer \in Responses :
            /\ response' = answer
            /\ pc' = IF answer = "n" THEN "aborted" ELSE "main_loop"
  /\ total_stats' = ZeroStats
  /\ UNCHANGED <<field_title, cleanup, schemas, entities, dry_run, cur, stats, locals,
                 exc, calls, pre, written>>

\* Lines 274-283: the confirmation of a live run (input() is not called in
\* a dry run).
MainConfirm ==
  /\ pc = "main"
  /\ IF dry_run
     THEN pc' = "main_loop" /\ response' = response
     ELSE \E answer \in Responses :
            /\ response' = answer
            /\ pc' = IF Lower(answer) # "y" THEN "aborted" ELSE "main_loop"
  /\ total_stats' = ZeroStats
  /\ UNCHANGED <<field_title, cleanup, schemas, entities, dry_run, cur, stats, locals,
                 exc, calls, pre, written>>

\* Line 287: the call of migrate_relationship on the next rule.
MainCall ==
  /\ pc = "main_loop"
  /\ cur <= Len(MIGRATIONS)
  /\ Enter(cur, dry_run)
  /\ UNCHANGED <<field_title, cleanup, response, schemas, entities, locals, total_stats,
                 calls>>

\* Lines 288-289: the statistics of a call that returned are added.
MainAccumulate ==
  /\ pc = "mr_return"
  /\ total_stats' = [k \in DOMAIN total_stats |-> total_stats[k] + stats[k]]
  /\ calls' = Append(calls, Finished("returned"))
  /\ cur' = cur + 1
  /\ pc' = "main_loop"
  /\ DropLocals
  /\ UNCHANGED <<field_title, cleanup, response, schemas, entities, dry_run, stats, exc,
                 pre, written>>

\* Mutant: no try/except around the call; the exception ends main.
MainExcept_propagates ==
  /\ pc = "mr_raise"
  /\ calls' = Append(calls, Finished("raised"))
  /\ pc' = "crashed"
  /\ DropLocals
  /\ UNCHANGED <<field_title, cleanup, response, schemas, entities, dry_run, cur, stats,
                 exc, total_stats, pre, written>>

\* Mutant: the counters the raising call had reached are added to the totals.
MainExcept_counts ==
  /\ pc = "mr_raise"
  /\ total_stats' = [k \in DOMAIN total_stats |-> total_stats[k] + stats[k]]
  /\ calls' = Append(calls, Finished("raised"))
  /\ cur' = cur + 1
  /\ pc' = "main_loop"
  /\ DropLocals
  /\ UNCHANGED <<field_title, cleanup, response, schemas, entities, dry_run, stats, exc,
                 pre, written>>

\* Lines 290-293: an exception is reported and the loop goes on.
MainExcept ==
  /\ pc = "mr_raise"
  /\ calls' = Append(calls, Finished("raised"))
  /\ cur' = cur + 1
  /\ pc' = "main_loop"
  /\ DropLocals
  /\ UNCHANGED <<field_title, cleanup, response, schemas, entities, dry_run, stats, exc,
                 total_stats, pre, written>>

\* Lines 295-303: the completion report.
MainComplete ==
  /\ pc = "main_loop"
  /\ cur > Len(MIGRATIONS)
  /\ pc' = "complete"
  /\ UNCHANGED <<field_title, cleanup, response, schemas, entities, dry_run, cur, stats,
                 locals, exc, total_stats, calls, pre, written>>

Next ==
  \/ MainConfirm
  \/ MainCall
  \/ MainAccumulate
  \/ MainExcept
  \/ MainComplete
  \/ SpecialCaseStep
  \/ TargetSchemaStep
  \/ LoadEntitiesStep
  \/ SourceLoopStep
  \/ SaveTargetStep
  \/ SourceSchemaStep

Spec == Init /\ [][Next]_vars

\* main runs to its end: no step waits for anything but the answer read
\* at the confirmation, which is taken to arrive.
FairSpec == Spec /\ WF_vars(Next)

(***************************************************************************)
(* SpecCleanup: clean_entity_data of scripts/cleanup-schema-migration.py,  *)
(* called twice on one store, one record file per step.  A folder that is  *)
(* absent is a folder without record files.                                *)
(***************************************************************************)
\* The types in the order of the ENTITY_FOLDERS dictionary of the script.
CleanupOrder == <<"Actor", "Feature", "Requirement", "Decision">>

\* load_schema of the cleanup script returns None for an absent file.
get_allowed_fields(entity_type) ==
  IF ~schemas[entity_type].exists THEN {}
  ELSE DOMAIN schemas[entity_type].properties

\* The fields a record of each type may hold.
FieldsOf ==
  [t \in ENTITY_FOLDERS |->
     CASE t = "Requirement" -> {"realizesFeatureIds", "ownerId"}
       [] t = "Feature" -> {"realizedByRequirementIds", "affectedByDecisionIds"}
       [] t = "Decision" -> {"affectsFeatureIds"}
       [] t = "Actor" -> {"ownsRequirements"}]

\* A schema that declares the fields of F, a record that holds them.
Declaring(F) == SchemaOf([f \in F |-> OldFieldDef("array", "")])
Holding(F) == [f \in F |-> ListVal(<<>>)]

\* The stores the cleanup may start from: each schema absent or declaring
\* any of the fields of its type (none included); the first record of
\* Requirement and of Feature holding any of its fields, every other record
\* all of them.
SchemasFor(t) == {AbsentSchema} \cup {Declaring(F) : F \in SUBSET FieldsOf[t]}

CleanupStores ==
  {[schemas |->
      [t \in ENTITY_FOLDERS |->
         CASE t = "Actor" -> sa [] t = "Feature" -> sf
           [] t = "Requirement" -> sr [] t = "Decision" -> sd],
    entities |->
      [t \in ENTITY_FOLDERS |->
         [i \in RecordIds[t] |->
            IF i = "R1" THEN Holding(r1)
            ELSE IF i = "F1" THEN Holding(f1)
            ELSE Holding(FieldsOf[t])]]] :
     sa \in SchemasFor("Actor"), sf \in SchemasFor("Feature"),
     sr \in SchemasFor("Requirement"), sd \in SchemasFor("Decision"),
     r1 \in SUBSET FieldsOf["Requirement"],
     f1 \in SUBSET FieldsOf["Feature"]}

InitCleanup ==
  /\ \E st \in CleanupStores :
       /\ schemas = st.schemas
       /\ entities = st.entities
       /\ pre = st
  /\ pc = "idle"
  /\ dry_run = FALSE
  /\ cur = 1
  /\ stats = ZeroStats
  /\ source_entities = NoEntities
  /\ target_entities = NoEntities
  /\ todo = {}
  /\ updated_targets = {}
  /\ saved = {}
  /\ exc = ""
  /\ total_stats = ZeroStats
  /\ response = ""
  /\ cleanup = NoCleanup
  /\ field_title = NoTitle
  /\ calls = <<>>
  /\ written = {}

migration == <<dry_run, cur, stats, locals, exc, total_stats, response>>

\* Lines 114-120: entry of clean_entity_data.
CleanCall ==
  /\ pc = "idle"
  /\ Len(calls) < 2
  /\ cleanup' = [NoCleanup EXCEPT !.index = 1]
  /\ pre' = Store
  /\ written' = {}
  /\ pc' = "clean_type"
  /\ UNCHANGED <<field_title, schemas, entities, calls, migration>>

\* Lines 122-131: the next type; it is skipped when no field is allowed.
CleanTypeStep ==
  /\ pc = "clean_type"
  /\ cleanup.index <= Len(CleanupOrder)
  /\ LET entity_type == CleanupOrder[cleanup.index]
         allowed_fields == get_allowed_fields(entity_type)
     IN IF allowed_fields = {}
        THEN /\ cleanup' = [cleanup EXCEPT !.index = @ + 1]
             /\ pc' = pc
        ELSE /\ cleanup' = [cleanup EXCEPT !.allowed_fields = allowed_fields,
                                           !.files = DOMAIN entities[entity_type],
                                           !.entities_cleaned = 0]
             /\ pc' = "clean_files"
  /\ UNCHANGED <<field_title, schemas, entities, calls, pre, written, migration>>

\* Lines 133-152: one record file, in the order the folder is listed.
CleanFileStep ==
  /\ pc = "clean_files"
  /\ \E yaml_file \in cleanup.files :
       LET entity_type == CleanupOrder[cleanup.index]
           data == entities[entity_type][yaml_file]
           fields_to_remove == DOMAIN data \ cleanup.allowed_fields
       IN IF data = NoFields \/ fields_to_remove = {}
          THEN /\ cleanup' = [cleanup EXCEPT !.files = @ \ {yaml_file}]
               /\ UNCHANGED <<entities, written>>
          ELSE /\ entities' = [entities EXCEPT ![entity_type][yaml_file] =
                                 [f \in DOMAIN data \ fields_to_remove |-> data[f]]]
               /\ written' = written \cup {<<entity_type, yaml_file>>}
               /\ cleanup' = [cleanup EXCEPT !.files = @ \ {yaml_file},
                                             !.entities_cleaned = @ + 1,
                                             !.total_cleaned = @ + 1]
  /\ UNCHANGED <<field_title, schemas, pc, calls, pre, migration>>

\* Lines 154-155: the folder is done.
CleanTypeDone ==
  /\ pc = "clean_files"
  /\ cleanup.files = {}
  /\ cleanup' = [cleanup EXCEPT !.index = @ + 1]
  /\ pc' = "clean_type"
  /\ UNCHANGED <<field_title, schemas, entities, calls, pre, written, migration>>

\* Lines 157-158: return total_cleaned.
CleanReturn ==
  /\ pc = "clean_type"
  /\ cleanup.index > Len(CleanupOrder)
  /\ calls' = Append(calls, [pre |-> pre, post |-> Store, written |-> written,
                             total_cleaned |-> cleanup.total_cleaned])
  /\ pc' = "idle"
  /\ UNCHANGED <<field_title, schemas, entities, cleanup, pre, written, migration>>

NextCleanup ==
  \/ CleanCall
  \/ CleanTypeStep
  \/ CleanFileStep
  \/ CleanTypeDone
  \/ CleanReturn

SpecCleanup == InitCleanup /\ [][NextCleanup]_vars

(***************************************************************************)
(* SpecTitle: get_field_title applied to one field name.  The names are    *)
(* the character sequences over a lower-case letter, the letters of "Ids"  *)
(* and an upper-case letter that starts a word.                            *)
(***************************************************************************)
\* Longest field name given to get_field_title.
MaxNameLen == 4

NameChars == {"a", "I", "d", "s", "B"}

InitTitle ==
  /\ schemas = BaseStore.schemas
  /\ entities = BaseStore.entities
  /\ pre = BaseStore
  /\ pc = "title"
  /\ dry_run = FALSE
  /\ cur = 1
  /\ stats = ZeroStats
  /\ source_entities = NoEntities
  /\ target_entities = NoEntities
  /\ todo = {}
  /\ updated_targets = {}
  /\ saved = {}
  /\ exc = ""
  /\ total_stats = ZeroStats
  /\ response = ""
  /\ cleanup = NoCleanup
  /\ field_title \in {[NoTitle EXCEPT !.field_name = n] : n \in SeqsUpTo(NameChars, MaxNameLen)}
  /\ calls = <<>>
  /\ written = {}

\* Lines 146-161: the call of get_field_title on the name.
TitleCall ==
  /\ pc = "title"
  /\ field_title' = [field_title EXCEPT !.title = get_field_title(field_title.field_name)]
  /\ pc' = "title_done"
  /\ UNCHANGED <<schemas, entities, cleanup, calls, pre, written, migration>>

NextTitle == TitleCall

SpecTitle == InitTitle /\ [][NextTitle]_vars

(***************************************************************************)
(* Vocabulary of the properties: what a finished call c did, read from     *)
(* the store before it (c.pre) and after it (c.post).                      *)
(***************************************************************************)
FinishedCalls == {calls[k] : k \in DOMAIN calls}

SrcType(c) == MIGRATIONS[c.rule][1]
SrcField(c) == MIGRATIONS[c.rule][2]
TgtType(c) == MIGRATIONS[c.rule][3]
NewField(c) == MIGRATIONS[c.rule][4]

Live(c) == ~c.dry
Completed(c) == c.outcome = "returned"

\* The ids a record lists under a field (none if it has no such field).
RefIds(data, f) ==
  IF f \in DOMAIN data
  THEN {data[f].items[i] : i \in 1..Len(data[f].items)} \ {""}
  ELSE {}

\* The record has field f, with value v.
FieldIs(data, f, v) == f \in DOMAIN data /\ data[f] = v

\* How many times a record lists id x under a field.
Occurrences(data, f, x) ==
  IF f \in DOMAIN data
  THEN Cardinality({i \in 1..Len(data[f].items) : data[f].items[i] = x})
  ELSE 0

\* Source record s of call c referenced target record t before the call.
Referenced(c, s, t) ==
  /\ s \in RecordIds[SrcType(c)]
  /\ t \in RecordIds[TgtType(c)]
  /\ t \in RefIds(c.pre.entities[SrcType(c)][s], SrcField(c))

\* Every reference of the call's source records that resolves is held,
\* exactly once, by the persisted target record.
BackReferencesComplete(c) ==
  \A s \in RecordIds[SrcType(c)], t \in RecordIds[TgtType(c)] :
     Referenced(c, s, t) =>
        Occurrences(c.post.entities[TgtType(c)][t], NewField(c), s) = 1

(***************************************************************************)
(* C1  Reference completeness.                                             *)
(***************************************************************************)
\* C1 as stated, for every rule: after a live call of migrate_relationship
\* that completes, every id a source record listed that resolves to a target
\* record has the source's id exactly once in the persisted target's new field.
C1_Original_AnyRule ==
  \A c \in FinishedCalls : Live(c) /\ Completed(c) => BackReferencesComplete(c)

\* C1 (amended): the same for every rule but the special case
\* (ownsRequirements -> ownerId), which propagates no reference.
C1_ReferenceCompleteness ==
  \A c \in FinishedCalls :
     Live(c) /\ Completed(c) /\ ~IsSpecialCase(c.rule) => BackReferencesComplete(c)

\* Requirement R1 listed [F1, F2] (or a longer list of both); a live call
\* completed and both Feature records hold R1.
C1_Witness ==
  \E c \in FinishedCalls :
     /\ Live(c) /\ Completed(c) /\ c.rule = 1
     /\ Referenced(c, "R1", "F1") /\ Referenced(c, "R1", "F2")
     /\ FieldIs(c.post.entities["Feature"]["F1"], "realizedByRequirementIds", ListVal(<<"R1">>))
     /\ FieldIs(c.post.entities["Feature"]["F2"], "realizedByRequirementIds", ListVal(<<"R1">>))
     /\ "realizesFeatureIds" \notin DOMAIN c.post.entities["Requirement"]["R1"]

(***************************************************************************)
(* C2  Dry-run non-mutation.                                               *)
(***************************************************************************)
InCall == pc \in {"mr_start", "mr_load", "mr_data", "mr_return", "mr_raise"}

\* C2: at every point of a dry-run call, and when it has finished, every
\* persisted schema and record equals what it was when the call started, and
\* no file has been written.
C2_DryRunNonMutation ==
  /\ InCall /\ dry_run => Store = pre /\ written = {}
  /\ \A c \in FinishedCalls : c.dry => c.post = c.pre /\ c.written = {}

\* A dry run that would add a schema field, migrate references and update
\* records has finished.
C2_Witness ==
  \E c \in FinishedCalls :
     /\ c.dry /\ Completed(c)
     /\ c.stats.schema_updates = 2
     /\ c.stats.refs_migrated >= 2
     /\ c.stats.entities_updated >= 1

(***************************************************************************)
(* C3  Dry-run / live agreement.                                           *)
(***************************************************************************)
\* C3: a dry run and a live run of the same rule from the same store end the
\* same way (both return or both raise) with the same statistics.
C3_DryLiveAgreement ==
  \A c \in FinishedCalls, d \in FinishedCalls :
     c.dry /\ Live(d) /\ c.rule = d.rule /\ c.pre = d.pre =>
        c.outcome = d.outcome /\ c.stats = d.stats

\* A dry run, then a live run from the same store, both with non-zero counts.
C3_Witness ==
  /\ Len(calls) = 2
  /\ calls[1].dry /\ Live(calls[2])
  /\ calls[1].pre = calls[2].pre
  /\ calls[2].post # calls[2].pre
  /\ calls[2].stats.schema_updates = 2
  /\ calls[2].stats.refs_migrated >= 2
  /\ calls[2].stats.entities_updated = 2

(***************************************************************************)
(* C4  Idempotence.                                                        *)
(***************************************************************************)
\* A store in which no record of a rule's target type lists an id twice
\* under the rule's new field.
NoDuplicateBackRefs(c, store) ==
  \A i \in RecordIds[TgtType(c)] :
     \A x \in RefIds(store.entities[TgtType(c)][i], NewField(c)) :
        Occurrences(store.entities[TgtType(c)][i], NewField(c), x) = 1

\* C4: a second live run of a rule, right after a first live run of it,
\* leaves every schema and record as the first run left it, and no target
\* record lists an id twice under the new field.
C4_Idempotence ==
  \A k \in 1..(Len(calls) - 1) :
     Live(calls[k]) /\ Live(calls[k + 1]) /\ calls[k].rule = calls[k + 1].rule =>
        /\ calls[k + 1].post = calls[k].post
        /\ NoDuplicateBackRefs(calls[k + 1], calls[k + 1].post)

\* Two live runs; the first changed schemas and records.
C4_Witness ==
  /\ Len(calls) = 2
  /\ Live(calls[1]) /\ Live(calls[2])
  /\ Completed(calls[1]) /\ Completed(calls[2])
  /\ calls[1].stats.schema_updates = 2
  /\ calls[1].stats.refs_migrated >= 2
  /\ calls[1].post # calls[1].pre

(***************************************************************************)
(* C5  Source field removal.                                               *)
(***************************************************************************)
\* C5 as stated: after a live call on a rule other than the special case
\* completes, every source record that had the source field, whatever its
\* value, no longer has it and has been written.
C5_SourceFieldRemoved ==
  \A c \in FinishedCalls :
     Live(c) /\ Completed(c) /\ ~IsSpecialCase(c.rule) =>
        \A s \in RecordIds[SrcType(c)] :
           SrcField(c) \in DOMAIN c.pre.entities[SrcType(c)][s] =>
              /\ SrcField(c) \notin DOMAIN c.post.entities[SrcType(c)][s]
              /\ <<SrcType(c), s>> \in c.written

(***************************************************************************)
(* C6  Missing schema.                                                     *)
(***************************************************************************)
SchemaMissing(c) ==
  \/ ~c.pre.schemas[SrcType(c)].exists
  \/ ~c.pre.schemas[TgtType(c)].exists

\* C6 as stated: a call on a rule whose source or target schema file is
\* absent does not raise, changes no schema it could not load, and still
\* migrates the records: a live call removes every non-empty source field
\* and leaves every resolving reference in the target record.
C6_MissingSchemaNotAnError ==
  \A c \in FinishedCalls :
     SchemaMissing(c) =>
        /\ Completed(c)
        /\ Live(c) /\ ~IsSpecialCase(c.rule) =>
              /\ BackReferencesComplete(c)
              /\ \A s \in RecordIds[SrcType(c)] :
                    RefIds(c.pre.entities[SrcType(c)][s], SrcField(c)) # {} =>
                       SrcField(c) \notin DOMAIN c.post.entities[SrcType(c)][s]

(***************************************************************************)
(* C7  Special-case field.                                                 *)
(***************************************************************************)
\* The rule's new field is declared as a scalar (string) property of the
\* target schema before the call.
ScalarOnTarget(c) ==
  /\ c.pre.schemas[TgtType(c)].exists
  /\ NewField(c) \in DOMAIN c.pre.schemas[TgtType(c)].properties
  /\ c.pre.schemas[TgtType(c)].properties[NewField(c)].type = "string"

Dangles(c, s) ==
  RefIds(c.pre.entities[SrcType(c)][s], SrcField(c)) \ RecordIds[TgtType(c)] # {}

\* The dangling id does no harm: the call raises only for a schema file
\* that is absent, and s enters the new field of no target record it did
\* not reference.
DanglingHarmless(c, s) ==
  /\ c.outcome = "raised" => c.exc = "FileNotFoundError" /\ SchemaMissing(c)
  /\ \A t \in RecordIds[TgtType(c)] :
        s \in RefIds(c.post.entities[TgtType(c)][t], NewField(c)) =>
           \/ Referenced(c, s, t)
           \/ s \in RefIds(c.pre.entities[TgtType(c)][t], NewField(c))

\* The ids of s that resolve are migrated by a live call that completes.
OthersMigrated(c, s) ==
  Live(c) /\ Completed(c) =>
     \A t \in RecordIds[TgtType(c)] :
        Referenced(c, s, t) =>
           s \in RefIds(c.post.entities[TgtType(c)][t], NewField(c))

\* C8 as stated, for every rule.
C8_Original_AnyRule ==
  \A c \in FinishedCalls : \A s \in RecordIds[SrcType(c)] :
     Dangles(c, s) => DanglingHarmless(c, s) /\ OthersMigrated(c, s)

\* C8 (amended): a reference to an id that names no target record raises
\* nothing and adds the source's id to no target record; and for every rule
\* but the special case the other ids of the same field are still migrated.
C8_DanglingTolerance ==
  \A c \in FinishedCalls : \A s \in RecordIds[SrcType(c)] :
     Dangles(c, s) =>
        /\ DanglingHarmless(c, s)
        /\ ~IsSpecialCase(c.rule) => OthersMigrated(c, s)

\* Requirement R1 listed [F9, F1]: the live call completed and F1 holds R1.
C8_Witness ==
  \E c \in FinishedCalls :
     /\ Live(c) /\ Completed(c) /\ c.rule = 1
     /\ FieldIs(c.pre.entities["Requirement"]["R1"], "realizesFeatureIds", ListVal(<<DanglingId, "F1">>))
     /\ FieldIs(c.post.entities["Feature"]["F1"], "realizedByRequirementIds", ListVal(<<"R1">>))
     /\ "realizedByRequirementIds" \notin DOMAIN c.post.entities["Feature"]["F2"]

(***************************************************************************)
(* C9  Deduplication, whatever the order.                                  *)
(***************************************************************************)
\* After the call the new field of every target record lists, each once,
\* the ids it listed before and the ids of the source records that
\* referenced it: a set the order of processing has no part in.
BackRefsAreTheReferrers(c) ==
  /\ \A t \in RecordIds[TgtType(c)] :
        RefIds(c.post.entities[TgtType(c)][t], NewField(c)) =
           RefIds(c.pre.entities[TgtType(c)][t], NewField(c))
             \cup {s \in RecordIds[SrcType(c)] : Referenced(c, s, t)}
  /\ NoDuplicateBackRefs(c, c.post)

\* C9 as stated, for every rule.
C9_Original_AnyRule ==
  \A c \in FinishedCalls : Live(c) /\ Completed(c) => BackRefsAreTheReferrers(c)

\* C9 (amended): for every rule but the special case, the new field of a
\* target record holds each referring source id exactly once; for every
\* rule the set of ids it holds is the same in whatever order the source
\* records are processed (the special case leaves the target records as
\* they were).
C9_Deduplication ==
  \A c \in FinishedCalls :
     Live(c) /\ Completed(c) =>
        IF IsSpecialCase(c.rule)
        THEN c.post.entities[TgtType(c)] = c.pre.entities[TgtType(c)]
        ELSE BackRefsAreTheReferrers(c)

\* R1 listed F1 twice and R2 listed F1; R2 was processed first.
C9_Witness ==
  \E c \in FinishedCalls :
     /\ Live(c) /\ Completed(c) /\ c.rule = 1
     /\ FieldIs(c.pre.entities["Requirement"]["R1"], "realizesFeatureIds", ListVal(<<"F1", "F1">>))
     /\ Referenced(c, "R2", "F1")
     /\ FieldIs(c.post.entities["Feature"]["F1"], "realizedByRequirementIds", ListVal(<<"R2", "R1">>))

(***************************************************************************)
(* C10  Failure isolation (checked under FairSpec).                        *)
(***************************************************************************)
AllRulesCalledInOrder ==
  /\ Len(calls) = Len(MIGRATIONS)
  /\ \A k \in DOMAIN calls : calls[k].rule = k

\* C10: whenever a call of migrate_relationship raises, main goes on to
\* call every later rule in list order and reaches its completion report.
C10_FailureIsolation ==
  (pc = "mr_raise") ~> (pc = "complete" /\ AllRulesCalledInOrder)

\* The first rule raised, the second was then applied and changed the store,
\* and main reported completion.
C10_Witness ==
  /\ pc = "complete"
  /\ AllRulesCalledInOrder
  /\ calls[1].outcome = "raised"
  /\ Completed(calls[2])
  /\ calls[2].post # calls[2].pre

(***************************************************************************)
(* C11  Confirmation gate (checked under Spec).                            *)
(***************************************************************************)
\* An answer that says yes.
Affirmative(answer) == answer \in {"y", "Y", "yes"}

\* Nothing has been done: the store is the one main started from, no file
\* has been written and no rule has been called.
Untouched == Store = pre /\ written = {} /\ calls = <<>> /\ ~InCall

\* C11: in live mode nothing is written before the answer is read, and
\* after an answer that is not affirmative main has ended with the store
\* as it was and no rule applied.
C11_ConfirmationGate ==
  ~dry_run =>
     /\ pc = "main" => Untouched
     /\ pc # "main" /\ ~Affirmative(response) => pc = "aborted" /\ Untouched

\* A live run over a store every rule would change was answered with an
\* empty line and has ended.
C11_Witness ==
  /\ ~dry_run
  /\ pc = "aborted"
  /\ response = ""
  /\ \A t \in ENTITY_FOLDERS : schemas[t].exists
  /\ FieldIs(entities["Requirement"]["R1"], "realizesFeatureIds", ListVal(<<"F1", "F2">>))

(***************************************************************************)
(* C12  Write iff changed.                                                 *)
(***************************************************************************)
\* How many ids a record lists under a field (0 if it has no such field).
RefCount(data, f) == IF f \in DOMAIN data THEN Len(data[f].items) ELSE 0

\* Call c wrote the file of record i of type t.
Wrote(c, t, i) == <<t, i>> \in c.written

\* C12: in a live call, returned or raised, a record file is written if and
\* only if the persisted record differs from what it was before the call: a
\* source record exactly when it lost the source field, a target record
\* exactly when its new field grew, and no record of another type.
C12_WriteIffChanged ==
  \A c \in FinishedCalls :
     Live(c) =>
        \A t \in ENTITY_FOLDERS : \A i \in RecordIds[t] :
           /\ Wrote(c, t, i) <=> c.post.entities[t][i] # c.pre.entities[t][i]
           /\ t = SrcType(c) =>
                 (Wrote(c, t, i) <=>
                    /\ SrcField(c) \in DOMAIN c.pre.entities[t][i]
                    /\ SrcField(c) \notin DOMAIN c.post.entities[t][i])
           /\ t = TgtType(c) =>
                 (Wrote(c, t, i) <=>
                    RefCount(c.post.entities[t][i], NewField(c))
                      > RefCount(c.pre.entities[t][i], NewField(c)))
           /\ t \notin {SrcType(c), TgtType(c)} => ~Wrote(c, t, i)

\* A live call of the first rule: R1 listed F1 and was written, R2 had no
\* source field and was not; F1 received R1 and was written, F2 was not.
C12_Witness ==
  \E c \in FinishedCalls :
     /\ Live(c) /\ Completed(c) /\ c.rule = 1
     /\ FieldIs(c.pre.entities["Requirement"]["R1"], "realizesFeatureIds", ListVal(<<"F1">>))
     /\ "realizesFeatureIds" \notin DOMAIN c.pre.entities["Requirement"]["R2"]
     /\ Wrote(c, "Requirement", "R1") /\ ~Wrote(c, "Requirement", "R2")
     /\ Wrote(c, "Feature", "F1") /\ ~Wrote(c, "Feature", "F2")

(***************************************************************************)
(* C13  Schema postcondition.                                              *)
(***************************************************************************)
\* A field definition that is a multi-valued, unique-items reference to ref_type.
IsMultiRef(def, ref_type) ==
  /\ def.type = "array"
  /\ def.uniqueItems
  /\ def.format = "sdd-ref"
  /\ def.refTargets = ref_type

\* C13: after a live call on a rule other than the special case completes,
\* the target schema declares the new field: as it was if it was declared
\* before (the whole target schema is then unchanged), as a multi-valued
\* unique-items reference to the source type next to the properties it had
\* otherwise; and the source schema no longer declares the source field.
C13_SchemaPostcondition ==
  \A c \in FinishedCalls :
     Live(c) /\ Completed(c) /\ ~IsSpecialCase(c.rule) =>
        LET before == c.pre.schemas[TgtType(c)]
            after == c.post.schemas[TgtType(c)]
        IN /\ after.exists
           /\ NewField(c) \in DOMAIN after.properties
           /\ IF NewField(c) \in DOMAIN before.properties
              THEN after = before
              ELSE /\ IsMultiRef(after.properties[NewField(c)], SrcType(c))
                   /\ WithoutField(after.properties, NewField(c)) = before.properties
           /\ SrcField(c) \notin DOMAIN c.post.schemas[SrcType(c)].properties

\* Two live calls of the first rule: the first added realizedByRequirementIds
\* to the Feature schema and removed realizesFeatureIds from the Requirement
\* schema, the second found the new field declared and left it.
C13_Witness ==
  /\ Len(calls) = 2
  /\ calls[1].rule = 1
  /\ Live(calls[1]) /\ Completed(calls[1])
  /\ Live(calls[2]) /\ Completed(calls[2])
  /\ "realizedByRequirementIds" \notin DOMAIN calls[1].pre.schemas["Feature"].properties
  /\ "realizesFeatureIds" \in DOMAIN calls[1].pre.schemas["Requirement"].properties
  /\ IsMultiRef(calls[1].post.schemas["Feature"].properties["realizedByRequirementIds"],
                "Requirement")
  /\ "realizesFeatureIds" \notin DOMAIN calls[1].post.schemas["Requirement"].properties
  /\ calls[2].post.schemas = calls[2].pre.schemas

(***************************************************************************)
(* C14  No reference is lost mid-rule.                                     *)
(***************************************************************************)
\* The pair (s, t) is persisted: in the source field of s or in the new
\* field of t.
PairPersisted(s, t) ==
  \/ t \in RefIds(entities[source_type][s], source_field)
  \/ s \in RefIds(entities[target_type][t], new_field)

\* C14 as stated: at every point of a live call, every pair (source id s,
\* existing target id t) persisted in the source field of s when the call
\* started is persisted in the source field of s or in the new field of t.
C14_NoReferenceLost ==
  InCall /\ ~dry_run =>
     \A s \in RecordIds[source_type], t \in RecordIds[target_type] :
        t \in RefIds(pre.entities[source_type][s], source_field) => PairPersisted(s, t)

(***************************************************************************)
(* C15  Later rules do not clobber earlier ones (checked under Spec).      *)
(***************************************************************************)
\* The value a record holds under a field (Missing if it has no such field).
FieldOf(data, f) == IF f \in DOMAIN data THEN data[f] ELSE Missing

\* The new field of every target record of call c is in the given records
\* what it was when c finished.
BackRefsKept(c, records) ==
  \A t \in RecordIds[TgtType(c)] :
     FieldOf(records[TgtType(c)][t], NewField(c))
       = FieldOf(c.post.entities[TgtType(c)][t], NewField(c))

RECURSIVE SumReturned(_, _)
SumReturned(n, key) ==
  IF n = 0 THEN 0
  ELSE SumReturned(n - 1, key)
         + (IF Completed(calls[n]) THEN calls[n].stats[key] ELSE 0)

\* C16: between two rules and at the end of the batch, each total of main
\* is the sum of that counter over the calls that returned; a call that
\* raised adds nothing, whatever it wrote.
C16_TotalsAccounting ==
  pc \in {"main_loop", "complete"} =>
     \A key \in DOMAIN ZeroStats : total_stats[key] = SumReturned(Len(calls), key)

\* A live batch has ended: the first rule raised after it had written a
\* schema and records, the other two returned with non-zero counters.
C16_Witness ==
  /\ pc = "complete"
  /\ ~dry_run
  /\ calls[1].outcome = "raised"
  /\ <<"schema", "Feature">> \in calls[1].written
  /\ <<"Feature", "F1">> \in calls[1].written
  /\ Completed(calls[2]) /\ Completed(calls[3])
  /\ total_stats = [schema_updates |-> 3, entities_updated |-> 1, refs_migrated |-> 1]

(***************************************************************************)
(* C17  Schema precedes data.                                              *)
(***************************************************************************)
\* The persisted target schema of the running call declares the new field.
TargetDeclares(store) ==
  /\ store.schemas[target_type].exists
  /\ new_field \in DOMAIN store.schemas[target_type].properties

\* Every target record that carries the new field has it declared.
SchemaCoversData(store) ==
  (\E t \in RecordIds[target_type] : new_field \in DOMAIN store.entities[target_type][t])
     => TargetDeclares(store)

\* The call has removed the property of the source field from the source schema.
SourcePropertyRemoved ==
  /\ source_field \in DOMAIN pre.schemas[source_type].properties
  /\ source_field \notin DOMAIN schemas[source_type].properties

\* In a live call: a target record that carries the new field is as the
\* call found it or has the field declared, and a store that had every
\* carried new field declared when the call started still has; once the
\* source property is removed, the loop over the source records is over and
\* every target record changed in memory is persisted.
SchemaPrecedesDataHere ==
  InCall /\ ~dry_run =>
     /\ \A t \in RecordIds[target_type] :
           new_field \in DOMAIN entities[target_type][t] =>
              \/ TargetDeclares(Store)
              \/ entities[target_type][t] = pre.entities[target_type][t]
     /\ SchemaCoversData(pre) => SchemaCoversData(Store)
     /\ SourcePropertyRemoved =>
           /\ todo = {}
           /\ \A t \in updated_targets : entities[target_type][t] = target_entities[t]

\* Once the call has removed the source property, it writes no record.
NoRecordWriteAfterSourceSchema ==
  InCall /\ ~dry_run /\ SourcePropertyRemoved => entities' = entities

OnlyDeclaredFields(store) ==
  \A t \in ENTITY_FOLDERS :
     store.schemas[t].exists =>
        \A i \in DOMAIN store.entities[t] :
           DOMAIN store.entities[t][i] \subseteq DOMAIN store.schemas[t].properties

\* C18 as stated: after a pass of clean_entity_data every record of every
\* type that has a schema holds only fields its schema declares, and a
\* second pass changes nothing and writes nothing.
C18_CleanupPruning ==
  /\ \A k \in DOMAIN calls : OnlyDeclaredFields(calls[k].post)
  /\ Len(calls) = 2 => calls[2].post = calls[1].post /\ calls[2].written = {}

(***************************************************************************)
(* C19  Title derivation (checked under SpecTitle).                        *)
(***************************************************************************)
\* The name without a trailing "Ids" or "Id".
StripSuffix(name) ==
  IF Len(name) >= 3 /\ SubSeq(name, Len(name) - 2, Len(name)) = <<"I", "d", "s">>
  THEN SubSeq(name, 1, Len(name) - 3)
  ELSE IF Len(name) >= 2 /\ SubSeq(name, Len(name) - 1, Len(name)) = <<"I", "d">>
       THEN SubSeq(name, 1, Len(name) - 2)
       ELSE name

\* C19 as stated: the title of a field name is the name without a trailing
\* "Ids" or "Id", split at each upper-case letter, in lower case, the words
\* joined by single spaces; an "Id" elsewhere in the name is kept.
C19_TitleDerivation ==
  pc = "title_done" =>
     field_title.title = SplitWords(StripSuffix(field_title.field_name), <<>>, <<>>)
====
